---- MODULE Spec2Model ----
(***************************************************************************)
(* pandasticsearch: the DataFrame query builder (dataframe.py) and the     *)
(* REST transport (client.py).                                             *)
(*                                                                         *)
(* Python values are tagged records, so that None, {} and 0 stay distinct  *)
(* and truthiness is computed the way the interpreter computes it.         *)
(* A call's outcome is a record [exc, val]: exc = "none" is a return.      *)
(***************************************************************************)
EXTENDS Integers, Sequences, FiniteSets, TLC

VARIABLES df, last, calls, made, rc

vars == <<df, last, calls, made, rc>>

---------------------------------------------------------------------------
(* Bounds of the inputs the model draws. *)

MaxCalls == 3
MaxLimit == 2
MaxSorters == 2
MaxAggs == 2
MaxIndices == 2
MaxTypes == 2

---------------------------------------------------------------------------
(* Python values *)

None == [t |-> "None"]
PyInt(n) == [t |-> "int", v |-> n]
PyBool(b) == [t |-> "bool", v |-> IF b THEN 1 ELSE 0]
PyFloat(num, den) == [t |-> "float", num |-> num, den |-> den]
PyStr(s) == [t |-> "str", s |-> s]
Dict(items) == [t |-> "dict", items |-> items]
List(elems) == [t |-> "list", elems |-> elems]
Tuple(elems) == [t |-> "tuple", elems |-> elems]
EmptyItems == <<>>

Ok(v) == [exc |-> "none", val |-> v]
Raise(e, v) == [exc |-> e, val |-> v]

\* bool(x) as `if x:` evaluates it
Truthy(x) ==
  CASE x.t = "None" -> FALSE
    [] x.t \in {"int", "bool"} -> x.v # 0
    [] x.t = "float" -> x.num # 0
    [] x.t = "str" -> x.s # ""
    [] x.t = "dict" -> DOMAIN x.items # {}
    [] x.t \in {"list", "tuple"} -> Len(x.elems) # 0
    [] OTHER -> TRUE

\* isinstance(x, int): bool is a subclass of int
IsInt(x) == x.t \in {"int", "bool"}

\* d[k] = v
DictSet(d, k, v) == Dict((k :> v) @@ d.items)
\* d.update(e): the keys of e win
DictUpdate(d, e) == Dict(e.items @@ d.items)
\* d.get(k, None)
DictGet(d, k) == IF k \in DOMAIN d.items THEN d.items[k] ELSE None

SeqRange(s) == {s[i] : i \in 1..Len(s)}

\* the element of a one-element set: `The({e(x) : x \in {v}})` is e with x
\* bound to the value of v, evaluated once
The(S) == CHOOSE x \in S : TRUE

---------------------------------------------------------------------------
(* Operator algebra: Column, BooleanFilter, Sorter, Aggregator and their   *)
(* build() fragments.                                                      *)

Column(name) == [t |-> "Column", name |-> name]

Equal(field, value) ==
  [t |-> "BooleanFilter", kind |-> "Equal", field |-> field, value |-> value]
LessThan(field, value) ==
  [t |-> "BooleanFilter", kind |-> "LessThan", field |-> field, value |-> value]

BooleanFilter_build(f) ==
  IF f.kind = "Equal"
  THEN Dict("term" :> Dict(f.field :> f.value))
  ELSE Dict("range" :> Dict(f.field :> Dict("lt" :> f.value)))

Sorter(field, order) == [t |-> "Sorter", field |-> field, order |-> order]

Sorter_build(s) == Dict(s.field :> Dict("order" :> PyStr(s.order)))

MetricAggregator(field, kind) ==
  [t |-> "Aggregator", field |-> field, kind |-> kind]

Aggregator_build(a) ==
  Dict((a.kind \o "(" \o a.field \o ")") :>
         Dict(a.kind :> Dict("field" :> PyStr(a.field))))

---------------------------------------------------------------------------
(* Schema mapping: an ordered dict index -> {"mappings": type ->            *)
(* {"properties": field -> metadata}}, kept as the sequences six.iteritems *)
(* walks.                                                                  *)

FieldNames == {"age", "name"}
IndexNames == <<"people", "company", "logs">>

\* the key orders a properties dict over FieldNames can have
PropertyLists ==
  {<<>>} \cup {<<f>> : f \in FieldNames}
         \cup {<<f, g>> : <<f, g>> \in {p \in FieldNames \X FieldNames : p[1] # p[2]}}

TypeLists ==
  UNION {[1..n -> PropertyLists] : n \in 0..MaxTypes}

Mappings ==
  UNION {[1..n -> TypeLists] : n \in 0..MaxIndices}

RECURSIVE Concat(_)
Concat(ss) == IF Len(ss) = 0 THEN <<>> ELSE Head(ss) \o Concat(Tail(ss))

\* the mapping the builder's DataFrame was discovered with
Mapping0 == << << <<"age", "name">> >> >>
Client0 == [url |-> "http://localhost:9200", endpoint |-> "people/_search",
            auth |-> None]

---------------------------------------------------------------------------
(* DataFrame: an object is its attribute dictionary.                       *)

\* property columns: `return self._columns`; with _columns unbound the read
\* falls to __getattr__, which reads self.columns again, without end
DataFrame_columns(self) ==
  IF "_columns" \in DOMAIN self
  THEN Ok(self["_columns"])
  ELSE Raise("RecursionError", None)

DataFrame__getattr__(self, name) ==
  LET c == DataFrame_columns(self)
  IN IF c.exc # "none" THEN c
     ELSE IF name \notin SeqRange(c.val.elems)
          THEN Raise("AttributeError", PyStr(name))
          ELSE Ok(Column(name))

\* self.<name>: the instance dictionary first, then __getattr__
GetAttribute(self, name) ==
  IF name \in DOMAIN self THEN Ok(self[name]) ELSE DataFrame__getattr__(self, name)

\* a DataFrame as a value: ref tells the receiver itself from a new instance
Obj(ref, attrs) == [t |-> "DataFrame", ref |-> ref, attrs |-> attrs]

KwGet(kwargs, k) == IF k \in DOMAIN kwargs THEN kwargs[k] ELSE None

DataFrame__init__(client, mapping, kwargs) ==
  LET cols == Concat([i \in 1..Len(mapping) |-> Concat(mapping[i])])
      \* the loop binds self._index once per index key, the last one stays
      self0 == IF Len(mapping) > 0
               THEN ("_index" :> PyStr(IndexNames[Len(mapping)]))
               ELSE EmptyItems
      idx == GetAttribute(self0, "_index")
  IN IF idx.exc # "none" THEN idx
     ELSE IF idx.val = None THEN Raise("Exception", PyStr("No index"))
     ELSE IF Len(cols) = 0 THEN Raise("Exception", PyStr("0 columns found"))
     ELSE Ok(Obj("new",
                 ("_client" :> client) @@
                 ("_columns" :> List([i \in 1..Len(cols) |-> cols[i]])) @@
                 ("_mapping" :> mapping) @@
                 ("_filter" :> KwGet(kwargs, "filter")) @@
                 ("_aggregation" :> KwGet(kwargs, "aggregation")) @@
                 ("_sort" :> KwGet(kwargs, "sort")) @@
                 ("_projection" :> KwGet(kwargs, "projection")) @@
                 ("_limit" :> KwGet(kwargs, "limit")) @@
                 ("_last_query" :> None) @@
                 self0))

---------------------------------------------------------------------------
(* _build_query and the clause methods.  A method yields [self, ret]: the  *)
(* receiver's attributes after the call and the call's outcome.            *)

DefaultSize == 20

\* the query document of lines 328-346
CompileQuery(self) ==
  LET q0 == Dict(EmptyItems)
      q1 == IF Truthy(self["_limit"])
            THEN DictSet(q0, "size", self["_limit"])
            ELSE DictSet(q0, "size", PyInt(DefaultSize))
      q2 == IF Truthy(self["_aggregation"])
            THEN DictSet(DictSet(q1, "aggregations", self["_aggregation"]),
                         "size", PyInt(0))
            ELSE q1
      q3 == IF Truthy(self["_filter"])
            THEN DictSet(q2, "query",
                   Dict("filtered" :> Dict("filter" :> self["_filter"])))
            ELSE q2
      q4 == IF Truthy(self["_projection"])
            THEN DictSet(q3, "_source", self["_projection"])
            ELSE q3
      q5 == IF Truthy(self["_sort"])
            THEN DictSet(q4, "sort", self["_sort"])
            ELSE q4
  IN q5

_build_query(self) ==
  The({[self |-> [self EXCEPT !["_last_query"] = query], ret |-> Ok(query)]
       : query \in {CompileQuery(self)}})

Clauses(self, changed) ==
  changed @@
  ("filter" :> self["_filter"]) @@
  ("aggregation" :> self["_aggregation"]) @@
  ("projection" :> self["_projection"]) @@
  ("sort" :> self["_sort"]) @@
  ("limit" :> self["_limit"])

\* filter that ands the condition onto the filter already set
filter_AndsPrevious(self, condition) ==
  IF condition.t # "BooleanFilter"
  THEN [self |-> self, ret |-> Raise("AssertionError", None)]
  ELSE LET built == BooleanFilter_build(condition)
           both == IF self["_filter"] = None THEN built
                   ELSE Dict("bool" :> Dict("must" :> List(<<self["_filter"], built>>)))
       IN [self |-> self,
           ret |-> DataFrame__init__(self["_client"], self["_mapping"],
                     Clauses(self, "filter" :> both))]

filter(self, condition) ==
  IF condition.t # "BooleanFilter"
  THEN [self |-> self, ret |-> Raise("AssertionError", None)]
  ELSE [self |-> self,
        ret |-> DataFrame__init__(self["_client"], self["_mapping"],
                  Clauses(self, "filter" :> BooleanFilter_build(condition)))]

\* select that does not hand the limit on
select_ForgetsLimit(self, cols) ==
  LET project == Dict(("includes" :> Tuple(cols)) @@ ("excludes" :> List(<<>>)))
  IN [self |-> self,
      ret |-> DataFrame__init__(self["_client"], self["_mapping"],
                ("projection" :> project) @@
                ("filter" :> self["_filter"]) @@
                ("aggregation" :> self["_aggregation"]) @@
                ("sort" :> self["_sort"]))]

select(self, cols) ==
  LET project == Dict(("includes" :> Tuple(cols)) @@ ("excludes" :> List(<<>>)))
  IN [self |-> self,
      ret |-> DataFrame__init__(self["_client"], self["_mapping"],
                Clauses(self, "projection" :> project))]

\* limit without the num >= 1 assertion
limit_NoRangeCheck(self, num) ==
  IF ~IsInt(num) THEN [self |-> self, ret |-> Raise("AssertionError", None)]
  ELSE [self |-> self,
        ret |-> DataFrame__init__(self["_client"], self["_mapping"],
                  Clauses(self, "limit" :> num))]

limit(self, num) ==
  IF ~IsInt(num) THEN [self |-> self, ret |-> Raise("AssertionError", None)]
  ELSE IF ~(num.v >= 1) THEN [self |-> self, ret |-> Raise("AssertionError", None)]
  ELSE [self |-> self,
        ret |-> DataFrame__init__(self["_client"], self["_mapping"],
                  Clauses(self, "limit" :> num))]

\* the loop of agg: aggregation.update(agg.build()) per argument, in order
RECURSIVE AggLoop(_, _)
AggLoop(aggregation, aggs) ==
  IF Len(aggs) = 0 THEN Ok(aggregation)
  ELSE IF Head(aggs).t # "Aggregator" THEN Raise("AssertionError", None)
  ELSE AggLoop(DictUpdate(aggregation, Aggregator_build(Head(aggs))), Tail(aggs))

agg(self, aggs) ==
  LET aggregation == AggLoop(Dict(EmptyItems), aggs)
  IN IF aggregation.exc # "none" THEN [self |-> self, ret |-> aggregation]
     ELSE [self |-> self,
           ret |-> DataFrame__init__(self["_client"], self["_mapping"],
                     Clauses(self, "aggregation" :> aggregation.val))]

\* the loop of sort: sorts.append(col.build()) per argument, in order
RECURSIVE SortLoop(_, _)
SortLoop(sorts, cols) ==
  IF Len(cols) = 0 THEN Ok(List(sorts))
  ELSE IF Head(cols).t # "Sorter" THEN Raise("AssertionError", None)
  ELSE SortLoop(Append(sorts, Sorter_build(Head(cols))), Tail(cols))

\* sort that appends to the sort clause already set
sort_Accumulates(self, cols) ==
  LET earlier == IF self["_sort"] = None THEN <<>> ELSE self["_sort"].elems
      sorts == SortLoop(earlier, cols)
  IN IF sorts.exc # "none" THEN [self |-> self, ret |-> sorts]
     ELSE [self |-> self,
           ret |-> DataFrame__init__(self["_client"], self["_mapping"],
                     Clauses(self, "sort" :> sorts.val))]

sort(self, cols) ==
  LET sorts == SortLoop(<<>>, cols)
  IN IF sorts.exc # "none" THEN [self |-> self, ret |-> sorts]
     ELSE [self |-> self,
           ret |-> DataFrame__init__(self["_client"], self["_mapping"],
                     Clauses(self, "sort" :> sorts.val))]

\* __getitem__ that stores the filter itself instead of item.build()
DataFrame__getitem__Unbuilt(self, item) ==
  IF item.t = "str"
  THEN IF item.s \notin SeqRange(self["_columns"].elems)
       THEN [self |-> self, ret |-> Raise("TypeError", item)]
       ELSE [self |-> self, ret |-> Ok(Column(item.s))]
  ELSE IF item.t = "BooleanFilter"
  THEN LET self1 == [self EXCEPT !["_filter"] = item]
       IN [self |-> self1, ret |-> Ok(Obj("self", self1))]
  ELSE [self |-> self, ret |-> Raise("TypeError", item)]

DataFrame__getitem__(self, item) ==
  IF item.t = "str"
  THEN IF item.s \notin SeqRange(self["_columns"].elems)
       THEN [self |-> self, ret |-> Raise("TypeError", item)]
       ELSE [self |-> self, ret |-> Ok(Column(item.s))]
  ELSE IF item.t = "BooleanFilter"
  THEN LET self1 == [self EXCEPT !["_filter"] = BooleanFilter_build(item)]
       IN [self |-> self1, ret |-> Ok(Obj("self", self1))]
  ELSE [self |-> self, ret |-> Raise("TypeError", item)]

to_dict(self) == _build_query(self)

---------------------------------------------------------------------------
(* RestClient (client.py).  The network's answer to one request is an      *)
(* input: a response, an HTTPError carrying a status and a body, or a      *)
(* URLError when no HTTP exchange took place.                              *)

BodyHits == "{\"hits\": {\"hits\": [{\"_source\": {\"age\": 12}}]}}"
BodyAggs == "{\"aggregations\": {\"avg(age)\": {\"value\": 12}}}"
BodyCount == "{\"aggregations\": {\"count(*)\": {\"value\": 5}}}"
BodyError == "{\"error\": {\"type\": \"parsing_exception\"}, \"status\": 400}"
BodyNoError == "{\"status\": 404}"
BodyList == "[]"
BodyNull == "null"
BodyHtml == "<html>Bad Gateway</html>"
BodyEmpty == ""

Bodies == {BodyHits, BodyAggs, BodyCount, BodyError, BodyNoError, BodyList,
           BodyNull, BodyHtml, BodyEmpty}

\* json.loads on the bodies above
json_loads(body) ==
  CASE body = BodyHits ->
         Ok(Dict("hits" :> Dict("hits" :>
              List(<<Dict("_source" :> Dict("age" :> PyInt(12)))>>))))
    [] body = BodyAggs ->
         Ok(Dict("aggregations" :>
              Dict("avg(age)" :> Dict("value" :> PyInt(12)))))
    [] body = BodyCount ->
         Ok(Dict("aggregations" :>
              Dict("count(*)" :> Dict("value" :> PyInt(5)))))
    [] body = BodyError ->
         Ok(Dict(("error" :> Dict("type" :> PyStr("parsing_exception"))) @@
                 ("status" :> PyInt(400))))
    [] body = BodyNoError -> Ok(Dict("status" :> PyInt(404)))
    [] body = BodyList -> Ok(List(<<>>))
    [] body = BodyNull -> Ok(None)
    [] OTHER -> Raise("ValueError", PyStr(body))

\* json.dumps(data).encode('utf-8')
json_dumps(data) == [t |-> "bytes", json |-> data]

Urls == {"http://localhost:9200", "http://localhost:9200/"}
EndsWithSlash(url) == url = "http://localhost:9200/"

RestClient(url, endpoint, auth) == [url |-> url, endpoint |-> endpoint, auth |-> auth]

RestClient_prepare_url(self) ==
  IF EndsWithSlash(self.url)
  THEN self.url \o self.endpoint
  ELSE self.url \o "/" \o self.endpoint

\* urlsafe_b64encode of "user:password"
getBasicAuthHeader(self) ==
  [t |-> "Basic", b64 |-> <<self.auth.elems[1], ":", self.auth.elems[2]>>]

\* the except urllib.error.HTTPError clause shared by get and post
HTTPErrorHandler(e) ==
  IF e.code # 200
  THEN LET reason == json_loads(e.body)
       IN IF reason.exc \in {"ValueError", "AttributeError", "KeyError"}
          THEN Raise("ServerDefinedException", None)
          \* else: reason.get('error', None), outside the try
          ELSE IF reason.val.t # "dict"
               THEN Raise("AttributeError", reason.val)
               ELSE Raise("ServerDefinedException", DictGet(reason.val, "error"))
  ELSE Raise("ServerDefinedException", None)

Exchange(req, http) ==
  CASE http.kind = "HTTPError" -> [req |-> req, ret |-> HTTPErrorHandler(http)]
    [] http.kind = "URLError" -> [req |-> req, ret |-> Raise("URLError", None)]
    [] OTHER -> [req |-> req, ret |-> json_loads(http.body)]

RestClient_get(self, params, http) ==
  LET url == RestClient_prepare_url(self)
      headers == IF self.auth # None
                 THEN "Authorization" :> getBasicAuthHeader(self)
                 ELSE EmptyItems
      req == [method |-> "GET", url |-> url, query |-> params,
              headers |-> headers, data |-> None]
  IN Exchange(req, http)

RestClient_post(self, data, params, http) ==
  LET url == RestClient_prepare_url(self)
      ctype == "Content-Type" :> [t |-> "str", s |-> "application/json"]
      headers == IF self.auth # None
                 THEN ("Authorization" :> getBasicAuthHeader(self)) @@ ctype
                 ELSE ctype
      req == [method |-> "POST", url |-> url, query |-> params,
              headers |-> headers, data |-> json_dumps(data)]
  IN Exchange(req, http)

ErrorCodes == {400, 404, 500}

HttpAnswers ==
  [kind : {"response"}, code : {200}, body : Bodies]
    \cup [kind : {"HTTPError"}, code : ErrorCodes, body : Bodies]
    \cup [kind : {"URLError"}, code : {0}, body : {BodyEmpty}]

---------------------------------------------------------------------------
(* Response interpreters (queries.py) and the terminal calls.              *)

\* Select.from_dict: the _source of every hit of response.hits.hits
Select_from_dict(res) ==
  IF res.t = "dict" /\ "hits" \in DOMAIN res.items
  THEN LET hits == res.items["hits"].items["hits"].elems
       IN Ok([t |-> "Select",
              result |-> [i \in 1..Len(hits) |-> hits[i].items["_source"]]])
  ELSE Raise("MalformedResponse", None)

\* Agg.from_dict: one row, label -> the metric's value
Agg_from_dict(res) ==
  IF res.t = "dict" /\ "aggregations" \in DOMAIN res.items
  THEN LET aggs == res.items["aggregations"].items
       IN Ok([t |-> "Agg",
              result |-> <<Dict([k \in DOMAIN aggs |-> aggs[k].items["value"]])>>])
  ELSE Raise("MalformedResponse", None)

Row(v) == [t |-> "Row", items |-> v.items]

\* _execute that posts a second time when the first post fails
_execute_Retries(self, http) ==
  LET built == _build_query(self)
      posted == RestClient_post(self["_client"], built.ret.val, None, http)
      again == RestClient_post(self["_client"], built.ret.val, None, http)
  IN IF posted.ret.exc # "none"
     THEN [self |-> built.self, compiles |-> 1, posts |-> <<posted.req, again.req>>,
           ret |-> again.ret, interp |-> "none"]
     ELSE [self |-> built.self, compiles |-> 1, posts |-> <<posted.req>>,
           ret |-> IF self["_aggregation"] # None
                   THEN Agg_from_dict(posted.ret.val)
                   ELSE Select_from_dict(posted.ret.val),
           interp |-> IF self["_aggregation"] # None THEN "Agg" ELSE "Select"]

\* _execute yields, besides [self, ret], what it did on the way: the
\* requests it posted, how often it compiled, the interpreter it chose
_execute(self, http) ==
  The({ The({ LET base == [self |-> built.self, compiles |-> 1,
                           posts |-> <<posted.req>>]
              IN IF posted.ret.exc # "none"
                 THEN base @@ [ret |-> posted.ret, interp |-> "none"]
                 ELSE IF self["_aggregation"] # None
                      THEN base @@ [ret |-> Agg_from_dict(posted.ret.val),
                                    interp |-> "Agg"]
                      ELSE base @@ [ret |-> Select_from_dict(posted.ret.val),
                                    interp |-> "Select"]
              : posted \in {RestClient_post(self["_client"], built.ret.val,
                                            None, http)} })
        : built \in {_build_query(self)} })

collect(self, http) ==
  The({ IF query.ret.exc # "none" THEN query
        ELSE [query EXCEPT !.ret =
                Ok(List([i \in 1..Len(query.ret.val.result) |->
                           Row(query.ret.val.result[i])]))]
        : query \in {_execute(self, http)} })

to_pandas(self, http) ==
  The({ IF query.ret.exc # "none" THEN query
        ELSE [query EXCEPT !.ret = Ok([t |-> "pandas.DataFrame",
                                       rows |-> query.ret.val.result])]
        : query \in {_execute(self, http)} })

\* count: the aggregating copy _df is compiled and executed, not the receiver
count(self, http) ==
  LET _df == agg(self, <<MetricAggregator("_index", "value_count")>>).ret.val.attrs
  IN The({ LET out == [rows EXCEPT !.self = self]
           IN IF rows.ret.exc # "none" THEN out
              ELSE IF Len(rows.ret.val.elems) = 0
                   THEN [out EXCEPT !.ret = Raise("IndexError", None)]
              ELSE IF "count(*)" \notin DOMAIN rows.ret.val.elems[1].items
                   THEN [out EXCEPT !.ret = Raise("KeyError", PyStr("count(*)"))]
              ELSE [out EXCEPT !.ret = Ok(rows.ret.val.elems[1].items["count(*)"])]
           : rows \in {collect(_df, http)} })

---------------------------------------------------------------------------
(* The arguments the calls are made with.                                  *)

BooleanFilters == {LessThan("age", PyInt(13)), Equal("name", PyStr("Alice"))}
Sorters == {Sorter("age", "asc"), Sorter("name", "desc")}
Aggregators == {MetricAggregator("age", "avg"), MetricAggregator("age", "max")}
NotOperators == {PyInt(5)}

SeqsUpTo(S, n) == UNION {[1..k -> S] : k \in 0..n}

FilterArgs == BooleanFilters \cup NotOperators
SelectArgs == {<<"name">>}
LimitArgs ==
  {PyInt(n) : n \in -1..MaxLimit} \cup
  {PyBool(TRUE), PyBool(FALSE), PyFloat(3, 2), PyStr("2")}
AggArgs == SeqsUpTo(Aggregators, MaxAggs) \cup {<<PyInt(5)>>}
SortArgs == SeqsUpTo(Sorters, MaxSorters) \cup {<<PyInt(5)>>}
ItemArgs == BooleanFilters \cup {PyStr("age"), PyStr("salary"), PyInt(5)}
AttrArgs == {"age", "salary"}

\* what the search endpoint answers in the builder's runs
SearchAnswers ==
  {a \in HttpAnswers :
     \/ a.kind = "response" /\ a.body \in {BodyHits, BodyCount}
     \/ a.kind = "HTTPError" /\ a.code = 400 /\ a.body \in {BodyError, BodyList}}

---------------------------------------------------------------------------
(* The builder's runs.  The program holds one DataFrame, df, and calls a   *)
(* method on it; when the call returns a DataFrame the program goes on     *)
(* with that one (df.limit(2).filter(p).collect()).  last records the most *)
(* recent call: the receiver before and after it, and its outcome.  A run  *)
(* makes at most MaxCalls calls.                                           *)

NoChain == [op |-> "none", before |-> EmptyItems]

NoCall == [op |-> "none", arg |-> None, before |-> EmptyItems, after |-> EmptyItems,
           ret |-> Ok(None), compiles |-> 0, posts |-> <<>>, interp |-> "none",
           chain |-> NoChain]

NoIO == [compiles |-> 0, posts |-> <<>>, interp |-> "none"]

IsNewDataFrame(ret) ==
  ret.exc = "none" /\ ret.val.t = "DataFrame" /\ ret.val.ref = "new"

\* df.filter(p1).filter(p2): the first call of the chain, kept with the second
ChainOf(l, op) ==
  IF op = "filter" /\ l.op = "filter" /\ IsNewDataFrame(l.ret)
  THEN [op |-> l.op, before |-> l.before]
  ELSE NoChain

Step(op, arg, call) ==
  /\ calls < MaxCalls
  /\ \E r \in {call} :
       /\ last' = [op |-> op, arg |-> arg, before |-> df, after |-> r.self,
                   ret |-> r.ret, compiles |-> r.compiles, posts |-> r.posts,
                   interp |-> r.interp, chain |-> ChainOf(last, op)]
       /\ df' = IF IsNewDataFrame(r.ret) THEN r.ret.val.attrs ELSE r.self
  /\ calls' = calls + 1
  /\ UNCHANGED <<made, rc>>

Idle == [op |-> "none"]

Init ==
  /\ df = DataFrame__init__(RestClient(Client0.url, Client0.endpoint, Client0.auth),
                            Mapping0, EmptyItems).val.attrs
  /\ last = NoCall
  /\ calls = 0
  /\ made = Idle
  /\ rc = Idle

Filter == \E c \in FilterArgs : Step("filter", c, filter(df, c) @@ NoIO)

Select == \E cols \in SelectArgs : Step("select", Tuple(cols), select(df, cols) @@ NoIO)

Limit == \E num \in LimitArgs : Step("limit", num, limit(df, num) @@ NoIO)

Agg == \E aggs \in AggArgs : Step("agg", Tuple(aggs), agg(df, aggs) @@ NoIO)

Sort == \E cols \in SortArgs : Step("sort", Tuple(cols), sort(df, cols) @@ NoIO)

GetItem ==
  \E item \in ItemArgs : Step("__getitem__", item, DataFrame__getitem__(df, item) @@ NoIO)

GetAttr ==
  \E name \in AttrArgs :
    Step("__getattr__", PyStr(name), [self |-> df, ret |-> GetAttribute(df, name)] @@ NoIO)

ToDict == Step("to_dict", None, to_dict(df) @@ NoIO)

Collect == \E http \in SearchAnswers : Step("collect", http, collect(df, http))

ToPandas == \E http \in SearchAnswers : Step("to_pandas", http, to_pandas(df, http))

Count == \E http \in SearchAnswers : Step("count", http, count(df, http))

Next ==
  \/ Filter \/ Select \/ Limit \/ Agg \/ Sort
  \/ GetItem \/ GetAttr \/ ToDict
  \/ Collect \/ ToPandas \/ Count

Spec == Init /\ [][Next]_vars

---------------------------------------------------------------------------
(* Construction on its own: DataFrame(client, mapping) for every mapping   *)
(* schema discovery can hand over.                                         *)

InitConstruct ==
  /\ made = Idle
  /\ df = EmptyItems
  /\ last = NoCall
  /\ calls = 0
  /\ rc = Idle

Construct ==
  /\ made = Idle
  /\ \E m \in Mappings :
       made' = [op |-> "DataFrame", mapping |-> m,
                ret |-> DataFrame__init__(Client0, m, EmptyItems)]
  /\ UNCHANGED <<df, last, calls, rc>>

NextConstruct == Construct

SpecConstruct == InitConstruct /\ [][NextConstruct]_vars

---------------------------------------------------------------------------
(* The transport on its own: get and post against every answer.            *)

Clients ==
  {RestClient(u, "people/_search", a) :
     u \in Urls, a \in {None, Tuple(<<"user", "secret">>)}}
ParamArgs == {None, Dict("pretty" :> PyStr("true"))}
DataArgs == {Dict(EmptyItems), Dict("size" :> PyInt(DefaultSize))}

InitClient ==
  /\ rc = Idle
  /\ df = EmptyItems
  /\ last = NoCall
  /\ calls = 0
  /\ made = Idle

Get ==
  /\ \E c \in Clients, params \in ParamArgs, http \in HttpAnswers :
       rc' = [op |-> "get", http |-> http] @@ RestClient_get(c, params, http)
  /\ UNCHANGED <<df, last, calls, made>>

Post ==
  /\ \E c \in Clients, data \in DataArgs, params \in ParamArgs, http \in HttpAnswers :
       rc' = [op |-> "post", http |-> http] @@ RestClient_post(c, data, params, http)
  /\ UNCHANGED <<df, last, calls, made>>

NextClient == Get \/ Post

SpecClient == InitClient /\ [][NextClient]_vars

---------------------------------------------------------------------------
(* Properties.                                                             *)

\* the query document a DataFrame compiles to
Query(self) == to_dict(self).ret.val

BuilderOps == {"filter", "select", "limit", "agg", "sort"}
TerminalOps == {"collect", "to_pandas", "count"}

Returned(l) == l.ret.val.attrs

\* C1: df.filter(p1).filter(p2) compiles to the query of df.filter(p2), whose
\* filter clause is p2.build() alone: the second filter replaces the first.
C1_FilterLastWins ==
  (last.op = "filter" /\ IsNewDataFrame(last.ret) /\ last.chain.op = "filter")
    => /\ Query(Returned(last))
            = Query(filter(last.chain.before, last.arg).ret.val.attrs)
       /\ Query(Returned(last)).items["query"]
            = Dict("filtered" :> Dict("filter" :> BooleanFilter_build(last.arg)))

C1_Witness ==
  /\ last.op = "filter" /\ IsNewDataFrame(last.ret) /\ last.chain.op = "filter"
  /\ last.before["_filter"] # BooleanFilter_build(last.arg)
  /\ last.chain.before["_limit"] # None

\* C2 as claimed: limit(n) with n a positive integer compiles to size n when
\* the query has no aggregation clause, and fails with ValueError otherwise.
C2_LimitValueError ==
  last.op = "limit"
    => IF IsInt(last.arg) /\ last.arg.v >= 1
       THEN /\ IsNewDataFrame(last.ret)
            /\ "aggregations" \notin DOMAIN Query(Returned(last)).items
                 => Query(Returned(last)).items["size"].v = last.arg.v
       ELSE last.ret.exc = "ValueError"

\* C2 amended: limit(n) with n a positive integer compiles to size n when the
\* query has no aggregation clause; for n <= 0 or a non-integer n the call
\* fails with AssertionError and returns no DataFrame.
C2_LimitAssertionError ==
  last.op = "limit"
    => IF IsInt(last.arg) /\ last.arg.v >= 1
       THEN /\ IsNewDataFrame(last.ret)
            /\ "aggregations" \notin DOMAIN Query(Returned(last)).items
                 => Query(Returned(last)).items["size"].v = last.arg.v
       ELSE last.ret.exc = "AssertionError"

C2_Witness ==
  /\ last.op = "limit" /\ last.arg = PyInt(0)
  /\ last.ret.exc = "AssertionError"
  /\ last.before["_limit"] = PyInt(MaxLimit)

\* C3: once agg has been called (the aggregation clause is set, whatever
\* aggregators were passed), the compiled query has size 0.
C3_AggForcesSizeZero ==
  (calls > 0 /\ df["_aggregation"] # None) => Query(df).items["size"] = PyInt(0)

ClauseOf(op) ==
  CASE op = "filter" -> "_filter"
    [] op = "select" -> "_projection"
    [] op = "limit" -> "_limit"
    [] op = "agg" -> "_aggregation"
    [] op = "sort" -> "_sort"

ClauseAttrs == {"_filter", "_aggregation", "_sort", "_projection", "_limit"}

\* C4: filter, select, limit, agg and sort leave the receiver as it was and
\* return a new DataFrame in which the clause the method names is the one
\* built from the arguments and the other four clauses are the receiver's.
C4_OneClauseReplaced ==
  last.op \in BuilderOps
    => /\ last.after = last.before
       /\ Query(last.after) = Query(last.before)
       /\ last.ret.exc = "none"
            => /\ IsNewDataFrame(last.ret)
               /\ \A c \in ClauseAttrs \ {ClauseOf(last.op)} :
                    Returned(last)[c] = last.before[c]
               /\ LET new == Returned(last)[ClauseOf(last.op)]
                  IN CASE last.op = "filter" -> new = BooleanFilter_build(last.arg)
                       [] last.op = "select" ->
                            new = Dict(("includes" :> last.arg) @@
                                       ("excludes" :> List(<<>>)))
                       [] last.op = "limit" -> new = last.arg
                       [] last.op = "agg" ->
                            /\ new.t = "dict"
                            /\ \A a \in SeqRange(last.arg.elems) :
                                 DOMAIN Aggregator_build(a).items \subseteq DOMAIN new.items
                            /\ \A k \in DOMAIN new.items :
                                 \E a \in SeqRange(last.arg.elems) :
                                   k \in DOMAIN Aggregator_build(a).items
                       [] last.op = "sort" ->
                            new.t = "list" /\ Len(new.elems) = Len(last.arg.elems)

C4_Witness ==
  /\ last.op = "select" /\ IsNewDataFrame(last.ret)
  /\ last.before["_limit"] # None
  /\ last.before["_filter"] # None
  /\ Returned(last)["_projection"] # last.before["_projection"]

\* C5 as claimed: df[p] has the compiled query of df.filter(p), and the
\* receiver compiles to the same query after df[p] as before.
C5_IndexedFilterImmutable ==
  (last.op = "__getitem__" /\ last.arg.t = "BooleanFilter")
    => /\ last.ret.exc = "none"
       /\ Query(Returned(last)) = Query(filter(last.before, last.arg).ret.val.attrs)
       /\ Query(last.after) = Query(last.before)

\* C5 amended: df[p] returns the receiver itself with its filter clause set to
\* p.build() and nothing else changed; it compiles, as the receiver does from
\* then on, to the query of df.filter(p).
C5_IndexedFilterInPlace ==
  (last.op = "__getitem__" /\ last.arg.t = "BooleanFilter")
    => /\ last.ret.exc = "none"
       /\ last.ret.val.ref = "self"
       /\ Returned(last) = last.after
       /\ last.after = [last.before EXCEPT !["_filter"] = BooleanFilter_build(last.arg)]
       /\ Query(last.after) = Query(filter(last.before, last.arg).ret.val.attrs)

C5_Witness ==
  /\ last.op = "__getitem__" /\ last.arg.t = "BooleanFilter"
  /\ last.ret.exc = "none"
  /\ last.before["_filter"] # None
  /\ Query(last.after) # Query(last.before)

\* C6: sort(s1, ..., sk) sets the sort clause to [s1.build(), ..., sk.build()]
\* in call order, duplicates kept and nothing left of an earlier sort; the
\* compiled query carries that list under "sort" (no "sort" key when k = 0).
C6_SortInCallOrder ==
  (last.op = "sort" /\ last.ret.exc = "none")
    => LET args == last.arg.elems
           want == List([i \in 1..Len(args) |-> Sorter_build(args[i])])
       IN /\ Returned(last)["_sort"] = want
          /\ IF Len(args) > 0
             THEN Query(Returned(last)).items["sort"] = want
             ELSE "sort" \notin DOMAIN Query(Returned(last)).items

C6_Witness ==
  /\ last.op = "sort" /\ last.ret.exc = "none"
  /\ Len(last.arg.elems) = 2
  /\ last.arg.elems[1] = last.arg.elems[2]
  /\ Truthy(last.before["_sort"])
  /\ last.before["_sort"].elems[1] # Sorter_build(last.arg.elems[1])

\* the DataFrame a terminal call compiles and executes
Executed(l) ==
  IF l.op = "count"
  THEN agg(l.before, <<MetricAggregator("_index", "value_count")>>).ret.val.attrs
  ELSE l.before

\* C7: collect, to_pandas and count compile once and post once, the post
\* carrying the compiled query; when the post fails the call ends with the
\* post's error as it was raised, with no second post and no rows.
C7_CompileOncePostOnce ==
  last.op \in TerminalOps
    => /\ last.compiles = 1
       /\ Len(last.posts) = 1
       /\ last.posts[1].method = "POST"
       /\ last.posts[1].data = json_dumps(Query(Executed(last)))
       /\ last.arg.kind # "response"
            => /\ last.ret.exc # "none"
               /\ last.ret = Exchange(last.posts[1], last.arg).ret

C7_Witness ==
  /\ last.op = "count"
  /\ last.arg.kind = "HTTPError"
  /\ last.ret.exc = "ServerDefinedException"
  /\ Len(last.posts) = 1
  /\ last.before["_filter"] # None

MappingFields(m) == SeqRange(Concat([i \in 1..Len(m) |-> Concat(m[i])]))

\* C8: construction from a mapping with no index key or with no field fails
\* with the schema error; from a mapping with one index and at least one
\* field it succeeds, the columns being the mapping's field names.
C8_SchemaError ==
  made.op = "DataFrame"
    => IF Len(made.mapping) = 0 \/ MappingFields(made.mapping) = {}
       THEN made.ret.exc = "Exception"
       ELSE Len(made.mapping) = 1
              => /\ IsNewDataFrame(made.ret)
                 /\ SeqRange(made.ret.val.attrs["_columns"].elems)
                      = MappingFields(made.mapping)

\* C9: get and post return the parsed body of a successful response; on an
\* HTTP error they raise the server error, carrying the error object of a
\* parseable body and nothing for an unparseable one, and nothing else.
C9_OnlyServerError ==
  rc.op \in {"get", "post"}
    => LET parsed == json_loads(rc.http.body)
       IN CASE rc.http.kind = "response" ->
                 parsed.exc = "none" => rc.ret = parsed
            [] rc.http.kind = "HTTPError" ->
                 /\ rc.ret.exc = "ServerDefinedException"
                 /\ parsed.exc # "none" => rc.ret.val = None
                 /\ (parsed.exc = "none" /\ parsed.val.t = "dict")
                      => rc.ret.val = DictGet(parsed.val, "error")
            [] OTHER -> TRUE

\* C10: a terminal call reads the response with the aggregation interpreter
\* exactly when the query it posted has the "aggregations" key (and size 0).
C10_InterpreterMatchesQuery ==
  (last.op \in TerminalOps /\ last.interp # "none")
    => LET q == last.posts[1].data.json
       IN /\ last.interp = "Agg"
               <=> ("aggregations" \in DOMAIN q.items /\ q.items["size"] = PyInt(0))
          /\ last.interp = "Select" <=> "aggregations" \notin DOMAIN q.items

====
